---------------------------- MODULE Spec2Model ----------------------------
(***************************************************************************)
(* wav::WavFileUtils (include/wav/WavFileUtils.hpp), the RIFF/WAVE reader, *)
(* and wav::Reader (include/wav/Reader.hpp), the earlier class with the    *)
(* same open() loop and its own data, fact and skip decoders.              *)
(*                                                                         *)
(* A file is a sequence of bytes.  open() is modelled step by step: one    *)
(* action for the call up to the header check, one action per iteration of *)
(* the chunk loop (one per branch of the dispatch), and one per way the    *)
(* loop ends.  The std::ifstream is the record `stream`: position, eofbit, *)
(* failbit and gcount, with read() and seekg() as the library defines      *)
(* them.  Every multi-byte field is decoded little-endian from the bytes   *)
(* the stream delivers; a short read stores only the bytes it got.         *)
(*                                                                         *)
(* Every 32-bit field the reader decodes from the modelled files is below  *)
(* 2^31, so that it fits the model checker's integers.                     *)
(***************************************************************************)
EXTENDS Integers, Sequences, FiniteSets, TLC

VARIABLES
  impl,           \* the class of the reader instance: "WavFileUtils" or "Reader"
  filename_,      \* WavFileUtils::filename_
  isOpen_,        \* WavFileUtils::isOpen_
  fmt_,           \* WavFileUtils::fmt_   (FmtChunk)
  data_,          \* WavFileUtils::data_  (DataChunk)
  fact_,          \* WavFileUtils::fact_  (FactChunk; wav::Reader has none)
  cue_,           \* WavFileUtils::cue_   (CueChunk)
  file,           \* the bytes of the file the open() in progress opened
  stream,         \* the std::ifstream local of open()
  foundFmtChunk,  \* the local of open()
  pc,             \* "idle" (no call in progress), "loop" (open() is in its chunk
                  \* loop), "done" (open() is at a return statement)
  result,         \* the value open() returns (meaningful when pc = "done")
  chunkStart,     \* stream position at which the last dispatched chunk's tag began
  written,        \* what the writer of the file put in it (the recipe of `file`)
  before,         \* the reader's fields when the open() in progress was called
  opens           \* number of open() calls made so far

vars == <<impl, filename_, isOpen_, fmt_, data_, fact_, cue_, file, stream,
          foundFmtChunk, pc, result, chunkStart, written, before, opens>>

-----------------------------------------------------------------------------
(* Bounds of the model *)

\* open() calls per reader instance
MaxOpens == 2
\* longest 'data' payload of the round-trip family
MaxDataLen == 2

-----------------------------------------------------------------------------
(* Bytes, tags, little-endian fields *)

Min(a, b) == IF a < b THEN a ELSE b

RECURSIVE LE(_)
\* the value of a little-endian field, as the in-memory copy of its bytes yields it
LE(bytes) == IF bytes = <<>> THEN 0 ELSE Head(bytes) + 256 * LE(Tail(bytes))

\* the n bytes of v, least significant first (what a writer puts in the file)
LEBytes(v, n) == [i \in 1..n |-> (v \div (256 ^ (i - 1))) % 256]

\* file.read(&field, n) delivered `got`: the first Len(got) bytes of the field are
\* replaced, the others keep their old value (old < 256^n: nothing wider is ever stored)
StoreLE(old, got, n) ==
  IF Len(got) = n THEN LE(got)
  ELSE (old \div (256 ^ Len(got))) * (256 ^ Len(got)) + LE(got)

TagRIFF == <<82, 73, 70, 70>>
TagWAVE == <<87, 65, 86, 69>>
TagFmt  == <<102, 109, 116, 32>>
TagData == <<100, 97, 116, 97>>
TagFact == <<102, 97, 99, 116>>
TagCue  == <<99, 117, 101, 32>>
TagJUNK == <<74, 85, 78, 75>>
TagLIST == <<76, 73, 83, 84>>
TagINFO == <<73, 78, 70, 79>>
TagSmpl == <<115, 109, 112, 108>>
TagInst == <<105, 110, 115, 116>>
TagBext == <<98, 101, 120, 116>>
TagIXML == <<105, 88, 77, 76>>
\* a vendor tag the reader does not know
TagXtra == <<120, 116, 114, 97>>

KnownSkippable == {TagJUNK, TagLIST, TagINFO, TagSmpl, TagInst, TagBext, TagIXML}

PCM == 1
IEEE_FLOAT == 3

-----------------------------------------------------------------------------
(* std::ifstream *)

NewStream == [pos |-> 0, eof |-> FALSE, fail |-> FALSE, gcount |-> 0]

Good(s) == ~s.eof /\ ~s.fail

\* istream::read(buf, n) on the bytes f: nothing is read when the stream is not
\* good (failbit is set, gcount is 0); otherwise min(n, remaining) bytes are
\* delivered, and a short read sets eofbit and failbit.
Read(f, s, n) ==
  IF ~Good(s)
  THEN [s |-> [s EXCEPT !.fail = TRUE, !.gcount = 0], got |-> <<>>]
  ELSE LET avail == IF s.pos >= Len(f) THEN 0 ELSE Len(f) - s.pos
           k     == Min(n, avail)
       IN [s   |-> [pos |-> s.pos + k, eof |-> k < n, fail |-> k < n, gcount |-> k],
           got |-> SubSeq(f, s.pos + 1, s.pos + k)]

\* istream::seekg(off, std::ios::cur), off >= 0: eofbit is cleared, the position
\* moves unless failbit is set (a position past the end of the file is accepted),
\* gcount is not touched.
Seek(s, off) ==
  [s EXCEPT !.eof = FALSE, !.pos = IF s.fail THEN @ ELSE @ + off]

-----------------------------------------------------------------------------
(* The structures of the reader *)

NewFmtChunk  == [chunkSize |-> 0, audioFormat |-> PCM, numChannels |-> 0, sampleRate |-> 0,
                 avgBytesPerSec |-> 0, blockAlign |-> 0, bitsPerSample |-> 0]
NewDataChunk == [chunkSize |-> 0, sampleDataInBytes |-> <<>>]
NewFactChunk == [chunkSize |-> 0, numSamplesPerChannel |-> 0]
NewCueChunk  == [chunkSize |-> 0, numCuePoints |-> 0, cuePoints |-> <<>>]
NewCuePoint  == [identifier |-> 0, position |-> 0, fccChunk |-> <<0, 0, 0, 0>>,
                 chunkStart |-> 0, blockStart |-> 0, sampleOffset |-> 0]

\* the structures of wav::Reader, under the member names of WavFileUtils
\* (audio_format, num_channels, sample_rate, byte_rate, block_align,
\* bits_per_sample; size, offset, audio_format, bits_per_sample, samples)
Reader_NewFmtChunk  == [audioFormat |-> 0, numChannels |-> 0, sampleRate |-> 0,
                        avgBytesPerSec |-> 0, blockAlign |-> 0, bitsPerSample |-> 0]
Reader_NewDataChunk == [chunkSize |-> 0, offset |-> 0, audioFormat |-> 0,
                        bitsPerSample |-> 0, sampleDataInBytes |-> <<>>]

\* the accessors
isOpen == isOpen_
getNumChannels == fmt_.numChannels
getSampleRate == fmt_.sampleRate
getBitsPerSample == fmt_.bitsPerSample
getAudioFormat == fmt_.audioFormat
getRawSampleData == data_.sampleDataInBytes
getFmtChunk == fmt_
getDataChunk == data_
getFactChunk == fact_
getCueChunk == cue_

-----------------------------------------------------------------------------
(* The chunk decoders.  Each takes the file bytes, the stream positioned   *)
(* right after the chunk tag and the structure it fills; each returns      *)
(* whether it succeeded, the stream and the structure as it left them.     *)

\* readFmtChunk reading the byte rate before the sample rate
readFmtChunk_swapped(f, s, fmt) ==
  LET r0 == Read(f, s, 4)
      chunkSize == LE(r0.got)
  IN IF r0.s.gcount # 4
     THEN [ok |-> FALSE, s |-> r0.s, fmt |-> fmt]
     ELSE LET r1 == Read(f, r0.s, 2)
              r2 == Read(f, r1.s, 2)
              r3 == Read(f, r2.s, 4)
              r4 == Read(f, r3.s, 4)
              r5 == Read(f, r4.s, 2)
              r6 == Read(f, r5.s, 2)
              fmt1 == [fmt EXCEPT !.audioFormat    = StoreLE(@, r1.got, 2),
                                  !.numChannels    = StoreLE(@, r2.got, 2),
                                  !.avgBytesPerSec = StoreLE(@, r3.got, 4),
                                  !.sampleRate     = StoreLE(@, r4.got, 4),
                                  !.blockAlign     = StoreLE(@, r5.got, 2),
                                  !.bitsPerSample  = StoreLE(@, r6.got, 2)]
          IN IF r6.s.gcount # 2
             THEN [ok |-> FALSE, s |-> r6.s, fmt |-> fmt1]
             ELSE [ok  |-> TRUE,
                   s   |-> IF chunkSize > 16 THEN Seek(r6.s, chunkSize - 16) ELSE r6.s,
                   fmt |-> fmt1]

\* readFmtChunk storing the declared size in the chunkSize member
readFmtChunk_storesSize(f, s, fmt) ==
  LET r0 == Read(f, s, 4)
      chunkSize == LE(r0.got)
  IN IF r0.s.gcount # 4
     THEN [ok |-> FALSE, s |-> r0.s, fmt |-> fmt]
     ELSE LET r1 == Read(f, r0.s, 2)
              r2 == Read(f, r1.s, 2)
              r3 == Read(f, r2.s, 4)
              r4 == Read(f, r3.s, 4)
              r5 == Read(f, r4.s, 2)
              r6 == Read(f, r5.s, 2)
              fmt1 == [fmt EXCEPT !.chunkSize      = chunkSize,
                                  !.audioFormat    = StoreLE(@, r1.got, 2),
                                  !.numChannels    = StoreLE(@, r2.got, 2),
                                  !.sampleRate     = StoreLE(@, r3.got, 4),
                                  !.avgBytesPerSec = StoreLE(@, r4.got, 4),
                                  !.blockAlign     = StoreLE(@, r5.got, 2),
                                  !.bitsPerSample  = StoreLE(@, r6.got, 2)]
          IN IF r6.s.gcount # 2
             THEN [ok |-> FALSE, s |-> r6.s, fmt |-> fmt1]
             ELSE [ok  |-> TRUE,
                   s   |-> IF chunkSize > 16 THEN Seek(r6.s, chunkSize - 16) ELSE r6.s,
                   fmt |-> fmt1]

\* readFmtChunk refusing a format code that is neither PCM nor IEEE float
readFmtChunk_supportedOnly(f, s, fmt) ==
  LET r0 == Read(f, s, 4)
      chunkSize == LE(r0.got)
  IN IF r0.s.gcount # 4
     THEN [ok |-> FALSE, s |-> r0.s, fmt |-> fmt]
     ELSE LET r1 == Read(f, r0.s, 2)
              r2 == Read(f, r1.s, 2)
              r3 == Read(f, r2.s, 4)
              r4 == Read(f, r3.s, 4)
              r5 == Read(f, r4.s, 2)
              r6 == Read(f, r5.s, 2)
              fmt1 == [fmt EXCEPT !.audioFormat    = StoreLE(@, r1.got, 2),
                                  !.numChannels    = StoreLE(@, r2.got, 2),
                                  !.sampleRate     = StoreLE(@, r3.got, 4),
                                  !.avgBytesPerSec = StoreLE(@, r4.got, 4),
                                  !.blockAlign     = StoreLE(@, r5.got, 2),
                                  !.bitsPerSample  = StoreLE(@, r6.got, 2)]
          IN IF r6.s.gcount # 2 \/ fmt1.audioFormat \notin {PCM, IEEE_FLOAT}
             THEN [ok |-> FALSE, s |-> r6.s, fmt |-> fmt1]
             ELSE [ok  |-> TRUE,
                   s   |-> IF chunkSize > 16 THEN Seek(r6.s, chunkSize - 16) ELSE r6.s,
                   fmt |-> fmt1]

\* readFmtChunk without the seek over the extension bytes
readFmtChunk_noSeek(f, s, fmt) ==
  LET r0 == Read(f, s, 4)
  IN IF r0.s.gcount # 4
     THEN [ok |-> FALSE, s |-> r0.s, fmt |-> fmt]
     ELSE LET r1 == Read(f, r0.s, 2)
              r2 == Read(f, r1.s, 2)
              r3 == Read(f, r2.s, 4)
              r4 == Read(f, r3.s, 4)
              r5 == Read(f, r4.s, 2)
              r6 == Read(f, r5.s, 2)
              fmt1 == [fmt EXCEPT !.audioFormat    = StoreLE(@, r1.got, 2),
                                  !.numChannels    = StoreLE(@, r2.got, 2),
                                  !.sampleRate     = StoreLE(@, r3.got, 4),
                                  !.avgBytesPerSec = StoreLE(@, r4.got, 4),
                                  !.blockAlign     = StoreLE(@, r5.got, 2),
                                  !.bitsPerSample  = StoreLE(@, r6.got, 2)]
          IN [ok |-> r6.s.gcount = 2, s |-> r6.s, fmt |-> fmt1]

readFmtChunk(f, s, fmt) ==
  LET r0 == Read(f, s, 4)
      chunkSize == LE(r0.got)
  IN IF r0.s.gcount # 4
     THEN [ok |-> FALSE, s |-> r0.s, fmt |-> fmt]
     ELSE LET r1 == Read(f, r0.s, 2)
              r2 == Read(f, r1.s, 2)
              r3 == Read(f, r2.s, 4)
              r4 == Read(f, r3.s, 4)
              r5 == Read(f, r4.s, 2)
              r6 == Read(f, r5.s, 2)
              fmt1 == [fmt EXCEPT !.audioFormat    = StoreLE(@, r1.got, 2),
                                  !.numChannels    = StoreLE(@, r2.got, 2),
                                  !.sampleRate     = StoreLE(@, r3.got, 4),
                                  !.avgBytesPerSec = StoreLE(@, r4.got, 4),
                                  !.blockAlign     = StoreLE(@, r5.got, 2),
                                  !.bitsPerSample  = StoreLE(@, r6.got, 2)]
          IN IF r6.s.gcount # 2
             THEN [ok |-> FALSE, s |-> r6.s, fmt |-> fmt1]
             ELSE [ok  |-> TRUE,
                   s   |-> IF chunkSize > 16 THEN Seek(r6.s, chunkSize - 16) ELSE r6.s,
                   fmt |-> fmt1]

\* std::vector::resize(n): the first n elements are kept, new ones are zero
Resize(v, n) == [i \in 1..n |-> IF i <= Len(v) THEN v[i] ELSE 0]

\* file.read(v.data(), n) delivered `got` into the vector v
StoreBytes(v, got) == [i \in 1..Len(v) |-> IF i <= Len(got) THEN got[i] ELSE v[i]]

\* only PCM and IEEE float are supported
Supported(audioFormat) == audioFormat = PCM \/ audioFormat = IEEE_FLOAT

\* readDataChunk appending the payload to the bytes the buffer holds
readDataChunk_append(f, s, data, fmt) ==
  LET r0 == Read(f, s, 4)
      data1 == [data EXCEPT !.chunkSize = StoreLE(@, r0.got, 4)]
  IN IF r0.s.gcount # 4
     THEN [ok |-> FALSE, s |-> r0.s, data |-> data1]
     ELSE IF fmt.audioFormat \notin {PCM, IEEE_FLOAT}
     THEN [ok |-> FALSE, s |-> r0.s, data |-> data1]
     ELSE LET r1 == IF data1.chunkSize > 0
                    THEN Read(f, r0.s, data1.chunkSize)
                    ELSE [s |-> r0.s, got |-> <<>>]
              data2 == [data1 EXCEPT !.sampleDataInBytes = @ \o r1.got]
          IN IF data1.chunkSize > 0 /\ r1.s.gcount # data1.chunkSize
             THEN [ok |-> FALSE, s |-> r1.s, data |-> data2]
             ELSE [ok   |-> TRUE,
                   s    |-> IF data1.chunkSize % 2 = 1 THEN Seek(r1.s, 1) ELSE r1.s,
                   data |-> data2]

\* readDataChunk without the check of the format code
readDataChunk_anyFormat(f, s, data, fmt) ==
  LET r0 == Read(f, s, 4)
      data1 == [data EXCEPT !.chunkSize = StoreLE(@, r0.got, 4)]
  IN IF r0.s.gcount # 4
     THEN [ok |-> FALSE, s |-> r0.s, data |-> data1]
     ELSE LET r1 == IF data1.chunkSize > 0
                    THEN Read(f, r0.s, data1.chunkSize)
                    ELSE [s |-> r0.s, got |-> <<>>]
              data2 == IF data1.chunkSize > 0
                       THEN [data1 EXCEPT !.sampleDataInBytes =
                               StoreBytes(Resize(@, data1.chunkSize), r1.got)]
                       ELSE data1
          IN IF data1.chunkSize > 0 /\ r1.s.gcount # data1.chunkSize
             THEN [ok |-> FALSE, s |-> r1.s, data |-> data2]
             ELSE [ok   |-> TRUE,
                   s    |-> IF data1.chunkSize % 2 = 1 THEN Seek(r1.s, 1) ELSE r1.s,
                   data |-> data2]

readDataChunk(f, s, data, fmt) ==
  LET r0 == Read(f, s, 4)
      data1 == [data EXCEPT !.chunkSize = StoreLE(@, r0.got, 4)]
  IN IF r0.s.gcount # 4
     THEN [ok |-> FALSE, s |-> r0.s, data |-> data1]
     ELSE IF ~Supported(fmt.audioFormat)
     THEN [ok |-> FALSE, s |-> r0.s, data |-> data1]
     ELSE LET r1 == IF data1.chunkSize > 0
                    THEN Read(f, r0.s, data1.chunkSize)
                    ELSE [s |-> r0.s, got |-> <<>>]
              data2 == IF data1.chunkSize > 0
                       THEN [data1 EXCEPT !.sampleDataInBytes =
                               StoreBytes(Resize(@, data1.chunkSize), r1.got)]
                       ELSE data1
          IN IF data1.chunkSize > 0 /\ r1.s.gcount # data1.chunkSize
             THEN [ok |-> FALSE, s |-> r1.s, data |-> data2]
             ELSE [ok   |-> TRUE,
                   s    |-> IF data1.chunkSize % 2 = 1 THEN Seek(r1.s, 1) ELSE r1.s,
                   data |-> data2]

\* readFactChunk storing the declared size as the sample count
readFactChunk_size(f, s, fact) ==
  LET r0 == Read(f, s, 4)
  IN IF r0.s.gcount # 4
     THEN [ok |-> FALSE, s |-> r0.s, fact |-> fact]
     ELSE LET r1 == Read(f, r0.s, 4)
              fact1 == [fact EXCEPT !.numSamplesPerChannel = LE(r0.got)]
          IN [ok |-> r1.s.gcount = 4, s |-> r1.s, fact |-> fact1]

readFactChunk(f, s, fact) ==
  LET r0 == Read(f, s, 4)
  IN IF r0.s.gcount # 4
     THEN [ok |-> FALSE, s |-> r0.s, fact |-> fact]
     ELSE LET r1 == Read(f, r0.s, 4)
              fact1 == [fact EXCEPT !.numSamplesPerChannel = StoreLE(@, r1.got, 4)]
          IN [ok |-> r1.s.gcount = 4, s |-> r1.s, fact |-> fact1]

\* readCuePoint with identifier and position stored in each other's place
readCuePoint_swapped(f, s) ==
  LET r1 == Read(f, s, 4)
      r2 == Read(f, r1.s, 4)
      r3 == Read(f, r2.s, 4)
      cp3 == [NewCuePoint EXCEPT !.position   = StoreLE(@, r1.got, 4),
                                 !.identifier = StoreLE(@, r2.got, 4),
                                 !.fccChunk   = StoreBytes(@, r3.got)]
  IN IF Len(r3.got) < 4 \/ r3.got # TagData
     THEN [ok |-> FALSE, s |-> r3.s, cuePoint |-> cp3]
     ELSE LET r4 == Read(f, r3.s, 4)
              r5 == Read(f, r4.s, 4)
              r6 == Read(f, r5.s, 4)
              cp6 == [cp3 EXCEPT !.chunkStart   = StoreLE(@, r4.got, 4),
                                 !.blockStart   = StoreLE(@, r5.got, 4),
                                 !.sampleOffset = StoreLE(@, r6.got, 4)]
          IN [ok |-> r6.s.gcount = 4, s |-> r6.s, cuePoint |-> cp6]

\* readCuePoint without the comparison of the source tag with "data"
readCuePoint_noTagCheck(f, s) ==
  LET r1 == Read(f, s, 4)
      r2 == Read(f, r1.s, 4)
      r3 == Read(f, r2.s, 4)
      r4 == Read(f, r3.s, 4)
      r5 == Read(f, r4.s, 4)
      r6 == Read(f, r5.s, 4)
      cp6 == [NewCuePoint EXCEPT !.identifier   = StoreLE(@, r1.got, 4),
                                 !.position     = StoreLE(@, r2.got, 4),
                                 !.fccChunk     = StoreBytes(@, r3.got),
                                 !.chunkStart   = StoreLE(@, r4.got, 4),
                                 !.blockStart   = StoreLE(@, r5.got, 4),
                                 !.sampleOffset = StoreLE(@, r6.got, 4)]
  IN [ok |-> r6.s.gcount = 4, s |-> r6.s, cuePoint |-> cp6]

\* The source tag is read into an uninitialized char[4].  When fewer than 4 bytes
\* arrive its other bytes are indeterminate and so is the comparison with "data",
\* but both outcomes return false: an unequal tag at once, an equal one at the
\* gcount check, since the stream has failed and the last read delivers nothing.
readCuePoint(f, s) ==
  LET r1 == Read(f, s, 4)
      r2 == Read(f, r1.s, 4)
      r3 == Read(f, r2.s, 4)
      cp3 == [NewCuePoint EXCEPT !.identifier = StoreLE(@, r1.got, 4),
                                 !.position   = StoreLE(@, r2.got, 4),
                                 !.fccChunk   = StoreBytes(@, r3.got)]
  IN IF Len(r3.got) < 4 \/ r3.got # TagData
     THEN [ok |-> FALSE, s |-> r3.s, cuePoint |-> cp3]
     ELSE LET r4 == Read(f, r3.s, 4)
              r5 == Read(f, r4.s, 4)
              r6 == Read(f, r5.s, 4)
              cp6 == [cp3 EXCEPT !.chunkStart   = StoreLE(@, r4.got, 4),
                                 !.blockStart   = StoreLE(@, r5.got, 4),
                                 !.sampleOffset = StoreLE(@, r6.got, 4)]
          IN [ok |-> r6.s.gcount = 4, s |-> r6.s, cuePoint |-> cp6]

RECURSIVE CueLoop(_, _, _, _)
\* for (long i = 0; i < cue_.numCuePoints; ++i) of readCueChunk
CueLoop(f, s, cue, i) ==
  IF ~(i < cue.numCuePoints)
  THEN [ok |-> TRUE, s |-> s, cue |-> cue]
  ELSE LET r == readCuePoint(f, s)
       IN IF ~r.ok
          THEN [ok |-> FALSE, s |-> r.s, cue |-> cue]
          ELSE CueLoop(f, r.s, [cue EXCEPT !.cuePoints = Append(@, r.cuePoint)], i + 1)

\* readCueChunk reporting success whatever the cue points read
readCueChunk_lenient(f, s, cue) ==
  LET r0 == Read(f, s, 4)
  IN IF r0.s.gcount # 4
     THEN [ok |-> FALSE, s |-> r0.s, cue |-> cue]
     ELSE LET r1 == Read(f, r0.s, 4)
              cue1 == [cue EXCEPT !.numCuePoints = StoreLE(@, r1.got, 4)]
          IN [CueLoop(f, r1.s, cue1, 0) EXCEPT !.ok = TRUE]

readCueChunk(f, s, cue) ==
  LET r0 == Read(f, s, 4)
  IN IF r0.s.gcount # 4
     THEN [ok |-> FALSE, s |-> r0.s, cue |-> cue]
     ELSE LET r1 == Read(f, r0.s, 4)
              cue1 == [cue EXCEPT !.numCuePoints = StoreLE(@, r1.got, 4)]
          IN CueLoop(f, r1.s, cue1, 0)

\* skipChunk seeking back to the tag of the chunk
skipChunk_rewind(f, s) ==
  LET r0 == Read(f, s, 4)
  IN IF r0.s.gcount # 4
     THEN [ok |-> FALSE, s |-> r0.s]
     ELSE [ok |-> TRUE, s |-> Seek(r0.s, 0 - 8)]

\* skipChunk without the seek over the pad byte
skipChunk_noPad(f, s) ==
  LET r0 == Read(f, s, 4)
      chunkSize == LE(r0.got)
  IN IF r0.s.gcount # 4
     THEN [ok |-> FALSE, s |-> r0.s]
     ELSE [ok |-> TRUE, s |-> Seek(r0.s, chunkSize)]

skipChunk(f, s) ==
  LET r0 == Read(f, s, 4)
      chunkSize == LE(r0.got)
  IN IF r0.s.gcount # 4
     THEN [ok |-> FALSE, s |-> r0.s]
     ELSE LET s1 == Seek(r0.s, chunkSize)
          IN [ok |-> TRUE, s |-> IF chunkSize % 2 = 1 THEN Seek(s1, 1) ELSE s1]

-----------------------------------------------------------------------------
(* The decoders of wav::Reader that differ from those of WavFileUtils      *)
(* (readFmtChunk, readCueChunk and readCuePoint are the same code).        *)

Reader_readDataChunk(f, s, data, fmt) ==
  LET r0 == Read(f, s, 4)
      data1 == [data EXCEPT !.chunkSize = StoreLE(@, r0.got, 4)]
      data2 == [data1 EXCEPT !.audioFormat = fmt.audioFormat,
                             !.bitsPerSample = fmt.bitsPerSample]
      data3 == [data2 EXCEPT !.offset = r0.s.pos]
  IN IF r0.s.gcount # 4
     THEN [ok |-> FALSE, s |-> r0.s, data |-> data1]
     ELSE IF ~Supported(data2.audioFormat)
     THEN [ok |-> FALSE, s |-> r0.s, data |-> data2]
     ELSE LET r1 == IF data3.chunkSize > 0
                    THEN Read(f, r0.s, data3.chunkSize)
                    ELSE [s |-> r0.s, got |-> <<>>]
              data4 == IF data3.chunkSize > 0
                       THEN [data3 EXCEPT !.sampleDataInBytes =
                               StoreBytes(Resize(@, data3.chunkSize), r1.got)]
                       ELSE data3
          IN [ok   |-> ~(data3.chunkSize > 0 /\ r1.s.gcount # data3.chunkSize),
              s    |-> r1.s,
              data |-> data4]

\* Reader::readFactChunk without the seek over the payload
Reader_readFactChunk_noSeek(f, s) ==
  LET r0 == Read(f, s, 4)
  IN [ok |-> r0.s.gcount = 4, s |-> r0.s]

Reader_readFactChunk(f, s) ==
  LET r0 == Read(f, s, 4)
      chunk_size == LE(r0.got)
  IN IF r0.s.gcount # 4
     THEN [ok |-> FALSE, s |-> r0.s]
     ELSE [ok |-> TRUE, s |-> Seek(r0.s, chunk_size)]

Reader_skipChunk(f, s) ==
  LET r0 == Read(f, s, 4)
      chunk_size == LE(r0.got)
  IN IF r0.s.gcount # 4
     THEN [ok |-> FALSE, s |-> r0.s]
     ELSE [ok |-> TRUE, s |-> Seek(r0.s, chunk_size)]

-----------------------------------------------------------------------------
(* The files.  A file is written from a recipe: the RIFF tag, the declared *)
(* total size, the WAVE tag, a sequence of chunks, and the number of bytes *)
(* of the result that reached the disk (a shorter number truncates it).    *)
(* A chunk is its tag, its declared size, its fixed-width little-endian    *)
(* fields (<<width, value>>) and the raw bytes that follow them (payload   *)
(* bytes and the pad byte).                                                *)

RECURSIVE Flatten(_)
Flatten(ss) == IF ss = <<>> THEN <<>> ELSE Head(ss) \o Flatten(Tail(ss))

EncodeFields(fields) == Flatten([i \in 1..Len(fields) |-> LEBytes(fields[i][2], fields[i][1])])

EncodeChunk(c) == c.tag \o LEBytes(c.size, 4) \o EncodeFields(c.fields) \o c.extra

EncodeBody(chunks) == Flatten([i \in 1..Len(chunks) |-> EncodeChunk(chunks[i])])

EncodeFile(rec) ==
  LET all == rec.riff \o LEBytes(rec.fsize, 4) \o rec.wave \o EncodeBody(rec.chunks)
  IN SubSeq(all, 1, Min(rec.cut, Len(all)))

\* the pad byte RIFF puts after a payload of odd length
Pad(n) == IF n % 2 = 1 THEN <<0>> ELSE <<>>

FmtW(code, ch, rate, bits, ext) ==
  [tag |-> TagFmt, size |-> 16 + Len(ext),
   fields |-> << <<2, code>>, <<2, ch>>, <<4, rate>>, <<4, (rate * ch * bits) \div 8>>,
                 <<2, (ch * bits) \div 8>>, <<2, bits>> >>,
   extra |-> ext]

DataW(payload) ==
  [tag |-> TagData, size |-> Len(payload), fields |-> <<>>,
   extra |-> payload \o Pad(Len(payload))]

FactW(n) == [tag |-> TagFact, size |-> 4, fields |-> << <<4, n>> >>, extra |-> <<>>]

\* one 24-byte cue-point record
CuePointW(id, position, fcc, sampleOffset) ==
  << <<4, id>>, <<4, position>>, <<4, LE(fcc)>>, <<4, 0>>, <<4, 0>>, <<4, sampleOffset>> >>

CueW(points) ==
  [tag |-> TagCue, size |-> 4 + 24 * Len(points),
   fields |-> << <<4, Len(points)>> >> \o Flatten(points), extra |-> <<>>]

SkipW(tag, payload) ==
  [tag |-> tag, size |-> Len(payload), fields |-> <<>>,
   extra |-> payload \o Pad(Len(payload))]

\* a complete file holding the chunks
Riff(chunks) ==
  [riff |-> TagRIFF, fsize |-> 4 + Len(EncodeBody(chunks)), wave |-> TagWAVE,
   chunks |-> chunks, cut |-> 12 + Len(EncodeBody(chunks))]

\* the file of recipe rec truncated to n bytes
Truncated(rec, n) == [rec EXCEPT !.cut = n]

NoRecipe == [riff |-> <<>>, fsize |-> 0, wave |-> <<>>, chunks |-> <<>>, cut |-> 0]

\* the sequences of pairwise different elements of S, of length at most n
Arrangements(S, n) ==
  {q \in UNION {[1..k -> S] : k \in 0..n} : \A i, j \in 1..Len(q) : q[i] = q[j] => i = j}

Channels == {1, 2}
Rates == {8000, 96000}
Bits == {8, 16}
\* the byte values of sample payloads
DataBytes == {7, 201}
\* the sample payloads: up to MaxDataLen bytes, no byte equal to the one before
\* it (a byte out of place shows)
Payloads ==
  {p \in UNION {[1..k -> DataBytes] : k \in 0..MaxDataLen} :
     \A i \in 1..(Len(p) - 1) : p[i] # p[i + 1]}

FmtA == FmtW(PCM, 1, 8000, 8, <<>>)
FmtB == FmtW(IEEE_FLOAT, 2, 96000, 16, <<0, 0>>)
\* a format code that is neither PCM nor IEEE float (ADPCM)
FmtADPCM == FmtW(2, 1, 8000, 8, <<>>)
Data3 == DataW(<<11, 12, 13>>)
Fact5 == FactW(5)
CueOne == CueW(<< CuePointW(1, 0, TagData, 9) >>)
CueTwo == CueW(<< CuePointW(1, 0, TagData, 9), CuePointW(2, 4, TagData, 30) >>)
CueBadTag == CueW(<< CuePointW(1, 0, TagFmt, 9) >>)
CueSecondBad == CueW(<< CuePointW(1, 0, TagData, 9), CuePointW(2, 4, TagFmt, 30) >>)
Xtra == SkipW(TagXtra, <<5, 6, 7>>)
Junk == SkipW(TagJUNK, <<0, 0>>)

\* fmt (16 bytes, PCM) + empty data, every channel count, rate and bit depth
FamMinimal ==
  {Riff(<<FmtW(PCM, ch, rate, bits, <<>>), DataW(<<>>)>>) :
     ch \in Channels, rate \in Rates, bits \in Bits}

\* fmt (PCM or IEEE float) + data with every payload
FamRoundTrip ==
  {Riff(<<fm, DataW(p)>>) : fm \in {FmtA, FmtB}, p \in Payloads}

\* every order of every choice of up to three of these chunks
FamOrder == {Riff(q) : q \in Arrangements({FmtB, Data3, Fact5, CueOne, Xtra}, 3)}

FamCue ==
  {Riff(<<FmtA, DataW(<<7, 7>>), c>>) : c \in {CueBadTag, CueSecondBad, CueTwo}}

FamUnsupported == {Riff(<<FmtADPCM>>), Riff(<<FmtADPCM, DataW(<<7, 7>>)>>)}

FamSkip == {Riff(<<FmtA, Junk, DataW(<<7>>), Fact5>>)}

\* a complete file cut at every length
TruncBase == Riff(<<FmtB, CueTwo, DataW(<<7>>)>>)
FamTruncated == {Truncated(TruncBase, n) : n \in 0..(TruncBase.cut - 1)}

\* a wrong RIFF tag, a wrong WAVE tag
FamHeader ==
  {[Riff(<<FmtA, DataW(<<>>)>>) EXCEPT !.riff = <<82, 73, 70, 88>>],
   [Riff(<<FmtA, DataW(<<>>)>>) EXCEPT !.wave = <<87, 65, 86, 32>>],
   [Riff(<<FmtA, DataW(<<>>)>>) EXCEPT !.riff = TagWAVE, !.wave = TagRIFF]}

\* a fact chunk of 6 bytes: the sample count and two bytes more
FactWide == [tag |-> TagFact, size |-> 6, fields |-> << <<4, 5>> >>, extra |-> <<0, 0>>]
\* a fmt chunk of 17 bytes: one extension byte, then the pad byte
FmtOdd == [FmtW(PCM, 1, 8000, 8, <<9>>) EXCEPT !.extra = <<9, 0>>]
\* an unknown chunk that declares 40 bytes and holds 3 and a pad byte
XtraOver == [Xtra EXCEPT !.size = 40]

\* declared sizes that are not the bytes the decoder consumes
FamSizes ==
  {Riff(<<FmtA, FactWide, DataW(<<7>>)>>),
   Riff(<<FmtOdd, DataW(<<7>>)>>),
   Riff(<<FmtA, XtraOver>>)}

\* the declared total size (bytes 4-7) is not the size of the file
FamDeclared ==
  {[Riff(<<FmtB, Data3, CueOne>>) EXCEPT !.fsize = v] : v \in {0, 4, 1000000}}

\* two fmt chunks, two data chunks
FamRepeat ==
  {Riff(<<FmtA, FmtB, Data3>>),
   Riff(<<FmtB, DataW(<<7, 7>>), Data3>>),
   Riff(<<FmtB, Data3, DataW(<<7>>)>>)}

\* every declared size even, a fact chunk of 4 bytes, fmt before data; and the
\* chunks of the first file of FamSizes with data before fact
FamAligned ==
  {Riff(<<FmtA, Junk, DataW(<<7, 7>>), Fact5>>),
   Riff(<<FmtA, DataW(<<7>>), FactWide>>)}

Files == FamMinimal \cup FamRoundTrip \cup FamOrder \cup FamCue \cup FamUnsupported
           \cup FamSkip \cup FamTruncated \cup FamHeader \cup FamSizes
           \cup FamDeclared \cup FamRepeat \cup FamAligned

\* each recipe with the bytes of its file
FileTable == {<<rec, EncodeFile(rec)>> : rec \in Files}

\* the file system: the names open() can be given, and those that name a file
Filenames == {"", "non_existent_file.wav", "audio.wav"}
ExistingFiles == {"audio.wav"}

-----------------------------------------------------------------------------
(* open() *)

\* the fields of the reader that open() fills
Fields == [fmt |-> fmt_, data |-> data_, fact |-> fact_, cue |-> cue_, isOpen |-> isOpen_]

\* a reader of class i as its constructors leave it
Constructed(i) ==
  /\ impl = i
  /\ filename_ \in Filenames
  /\ isOpen_ = FALSE
  /\ fmt_ = IF i = "Reader" THEN Reader_NewFmtChunk ELSE NewFmtChunk
  /\ data_ = IF i = "Reader" THEN Reader_NewDataChunk ELSE NewDataChunk
  /\ fact_ = NewFactChunk
  /\ cue_ = NewCueChunk
  /\ file = <<>>
  /\ stream = NewStream
  /\ foundFmtChunk = FALSE
  /\ pc = "idle"
  /\ result = FALSE
  /\ chunkStart = 0
  /\ written = NoRecipe
  /\ before = Fields
  /\ opens = 0

\* a wav::WavFileUtils instance
Init == Constructed("WavFileUtils")

\* a wav::Reader instance
InitReader == Constructed("Reader")

\* the call can be made
CanCall == pc = "idle" /\ opens < MaxOpens

\* open() returns false
ReturnFalse == pc' = "done" /\ result' = FALSE

\* AccessFailure clearing the reader before it looks at the file name
AccessFailure_clears(fn) ==
  /\ fn = "" \/ fn \notin ExistingFiles
  /\ file' = <<>>
  /\ written' = NoRecipe
  /\ stream' = NewStream
  /\ ReturnFalse
  /\ isOpen_' = FALSE
  /\ fmt_' = NewFmtChunk
  /\ data_' = NewDataChunk
  /\ fact_' = NewFactChunk
  /\ cue_' = NewCueChunk

\* open() with filename_ = fn: the name is empty or the file cannot be opened
AccessFailure(fn) ==
  /\ fn = "" \/ fn \notin ExistingFiles
  /\ file' = <<>>
  /\ written' = NoRecipe
  /\ stream' = NewStream
  /\ ReturnFalse
  /\ UNCHANGED <<isOpen_, fmt_, data_, fact_, cue_>>

\* HeaderOk refusing a declared total size of 0
HeaderOk_sizeChecked(r) ==
  /\ r.s.gcount = 12
  /\ SubSeq(r.got, 1, 4) = TagRIFF
  /\ LE(SubSeq(r.got, 5, 8)) > 0
  /\ SubSeq(r.got, 9, 12) = TagWAVE

\* HeaderOk without the check of the WAVE tag
HeaderOk_riffOnly(r) ==
  /\ r.s.gcount = 12
  /\ SubSeq(r.got, 1, 4) = TagRIFF

\* the 12 header bytes are there and carry RIFF and WAVE
HeaderOk(r) ==
  /\ r.s.gcount = 12
  /\ SubSeq(r.got, 1, 4) = TagRIFF
  /\ SubSeq(r.got, 9, 12) = TagWAVE

\* open() with filename_ = fn, the file holding the bytes f that rec wrote: up to
\* the loop
ReadHeader(fn, rec, f) ==
  /\ fn # "" /\ fn \in ExistingFiles
  /\ LET r == Read(f, NewStream, 12)
     IN /\ file' = f
        /\ written' = rec
        /\ stream' = r.s
        /\ IF HeaderOk(r) THEN pc' = "loop" /\ result' = FALSE ELSE ReturnFalse
  /\ UNCHANGED <<isOpen_, fmt_, data_, fact_, cue_>>

Begin(fn) ==
  /\ CanCall
  /\ opens' = opens + 1
  /\ before' = Fields
  /\ foundFmtChunk' = FALSE
  /\ chunkStart' = 0
  /\ UNCHANGED impl
  /\ \/ AccessFailure(fn)
     \/ \E e \in FileTable : ReadHeader(fn, e[1], e[2])

\* bool open()
Open == Begin(filename_) /\ UNCHANGED filename_

\* bool open(const std::string& filename)
OpenFilename == \E fn \in Filenames : filename_' = fn /\ Begin(fn)

\* the read of the next chunk tag
TagRead == Read(file, stream, 4)

\* a chunk tagged `tags` is dispatched
Dispatch(tags) ==
  /\ pc = "loop"
  /\ Good(stream)
  /\ TagRead.s.gcount = 4
  /\ TagRead.got \in tags
  /\ chunkStart' = stream.pos
  /\ UNCHANGED <<impl, filename_, isOpen_, file, written, before, opens>>

\* a decoder returned ok: the loop goes on, or open() returns false
After(ok) ==
  IF ok THEN pc' = "loop" /\ UNCHANGED result ELSE ReturnFalse

DispatchFmt ==
  /\ Dispatch({TagFmt})
  /\ LET r == readFmtChunk(file, TagRead.s, fmt_)
     IN /\ fmt_' = r.fmt
        /\ stream' = r.s
        /\ foundFmtChunk' = (foundFmtChunk \/ r.ok)
        /\ After(r.ok)
  /\ UNCHANGED <<data_, fact_, cue_>>

DispatchData ==
  /\ Dispatch({TagData})
  /\ LET r == IF impl = "Reader"
              THEN Reader_readDataChunk(file, TagRead.s, data_, fmt_)
              ELSE readDataChunk(file, TagRead.s, data_, fmt_)
     IN /\ data_' = r.data
        /\ stream' = r.s
        /\ After(r.ok)
  /\ UNCHANGED <<fmt_, fact_, cue_, foundFmtChunk>>

DispatchFact ==
  /\ Dispatch({TagFact})
  /\ LET r == IF impl = "Reader"
              THEN Reader_readFactChunk(file, TagRead.s) @@ [fact |-> fact_]
              ELSE readFactChunk(file, TagRead.s, fact_)
     IN /\ fact_' = r.fact
        /\ stream' = r.s
        /\ After(r.ok)
  /\ UNCHANGED <<fmt_, data_, cue_, foundFmtChunk>>

DispatchCue ==
  /\ Dispatch({TagCue})
  /\ LET r == readCueChunk(file, TagRead.s, cue_)
     IN /\ cue_' = r.cue
        /\ stream' = r.s
        /\ After(r.ok)
  /\ UNCHANGED <<fmt_, data_, fact_, foundFmtChunk>>

\* JUNK, LIST, INFO, smpl, inst, bext, iXML
DispatchKnownSkip ==
  /\ Dispatch(KnownSkippable)
  /\ LET r == IF impl = "Reader" THEN Reader_skipChunk(file, TagRead.s)
                                 ELSE skipChunk(file, TagRead.s)
     IN stream' = r.s /\ After(r.ok)
  /\ UNCHANGED <<fmt_, data_, fact_, cue_, foundFmtChunk>>

\* any other tag
DispatchUnknownSkip ==
  /\ Dispatch({TagRead.got} \ ({TagFmt, TagData, TagFact, TagCue} \cup KnownSkippable))
  /\ LET r == IF impl = "Reader" THEN Reader_skipChunk(file, TagRead.s)
                                 ELSE skipChunk(file, TagRead.s)
     IN stream' = r.s /\ After(r.ok)
  /\ UNCHANGED <<fmt_, data_, fact_, cue_, foundFmtChunk>>

\* Finish without the check that a fmt chunk was found
Finish_noFmtCheck(s) ==
  /\ stream' = s
  /\ pc' = "done"
  /\ result' = TRUE
  /\ isOpen_' = TRUE
  /\ UNCHANGED <<impl, filename_, fmt_, data_, fact_, cue_, file, foundFmtChunk,
                 chunkStart, written, before, opens>>

\* after the loop: the fmt chunk is required
Finish(s) ==
  /\ stream' = s
  /\ pc' = "done"
  /\ result' = foundFmtChunk
  /\ isOpen_' = IF foundFmtChunk THEN TRUE ELSE isOpen_
  /\ UNCHANGED <<impl, filename_, fmt_, data_, fact_, cue_, file, foundFmtChunk,
                 chunkStart, written, before, opens>>

\* while (file.good()) is false
LoopCondFalse == pc = "loop" /\ ~Good(stream) /\ Finish(stream)

\* fewer than 4 bytes of tag taken for an error
TagShortRead_error ==
  /\ pc = "loop" /\ Good(stream) /\ TagRead.s.gcount # 4
  /\ stream' = TagRead.s
  /\ ReturnFalse
  /\ UNCHANGED <<impl, filename_, isOpen_, fmt_, data_, fact_, cue_, file,
                 foundFmtChunk, chunkStart, written, before, opens>>

\* fewer than 4 bytes of tag: break
TagShortRead ==
  pc = "loop" /\ Good(stream) /\ TagRead.s.gcount # 4 /\ Finish(TagRead.s)

\* open() returns to its caller: its locals are gone
Return ==
  /\ pc = "done"
  /\ pc' = "idle"
  /\ result' = FALSE
  /\ file' = <<>>
  /\ written' = NoRecipe
  /\ stream' = NewStream
  /\ foundFmtChunk' = FALSE
  /\ chunkStart' = 0
  /\ before' = Fields
  /\ UNCHANGED <<impl, filename_, isOpen_, fmt_, data_, fact_, cue_, opens>>

Next ==
  \/ Open
  \/ OpenFilename
  \/ DispatchFmt
  \/ DispatchData
  \/ DispatchFact
  \/ DispatchCue
  \/ DispatchKnownSkip
  \/ DispatchUnknownSkip
  \/ LoopCondFalse
  \/ TagShortRead
  \/ Return

\* one wav::WavFileUtils instance and the calls made on it
Spec == Init /\ [][Next]_vars

\* one wav::Reader instance and the calls made on it
SpecReader == InitReader /\ [][Next]_vars

\* the values the variables take
TypeOK ==
  /\ impl \in {"WavFileUtils", "Reader"}
  /\ filename_ \in Filenames
  /\ isOpen_ \in BOOLEAN
  /\ pc \in {"idle", "loop", "done"}
  /\ result \in BOOLEAN
  /\ foundFmtChunk \in BOOLEAN
  /\ opens \in 0..MaxOpens
  /\ Len(data_.sampleDataInBytes) <= 8
  /\ stream.pos <= Len(file) + 2000000000

-----------------------------------------------------------------------------
(* Properties *)

\* the recipe is a complete file with the RIFF and WAVE tags
WellFormed(rec) ==
  /\ rec.riff = TagRIFF
  /\ rec.wave = TagWAVE
  /\ rec.cut = 12 + Len(EncodeBody(rec.chunks))

\* RIFF/WAVE + a 16-byte PCM 'fmt ' chunk + a zero-length 'data' chunk
IsMinimalPCM(rec) ==
  /\ WellFormed(rec)
  /\ Len(rec.chunks) = 2
  /\ rec.chunks[1].tag = TagFmt
  /\ rec.chunks[1].size = 16
  /\ rec.chunks[1].extra = <<>>
  /\ rec.chunks[1].fields[1][2] = PCM
  /\ rec.chunks[2] = DataW(<<>>)

\* C1: when open() returns from a file that holds only the RIFF/WAVE header, a
\* 16-byte PCM 'fmt ' chunk and a zero-length 'data' chunk, it returns true and
\* the channel count, sample rate and bits per sample are the written values
\* and the format is PCM (1), whatever the reader held before.
C1_MinimalFileParses ==
  (pc = "done" /\ IsMinimalPCM(written)) =>
    /\ result = TRUE
    /\ getNumChannels = written.chunks[1].fields[2][2]
    /\ getSampleRate = written.chunks[1].fields[3][2]
    /\ getBitsPerSample = written.chunks[1].fields[6][2]
    /\ getAudioFormat = PCM

\* a reader that held another format returns from a minimal file with its values
C1_Witness ==
  /\ pc = "done" /\ IsMinimalPCM(written) /\ result
  /\ opens = 2
  /\ before.fmt.audioFormat = IEEE_FLOAT
  /\ before.fmt.numChannels = 2
  /\ getNumChannels = 1 /\ getSampleRate = 96000 /\ getBitsPerSample = 16

\* the four bytes "fmt " occur nowhere in the bytes f
NoFmtTag(f) == \A i \in 1..(Len(f) - 3) : SubSeq(f, i, i + 3) # TagFmt

BadHeader(f) ==
  \/ Len(f) < 12
  \/ SubSeq(f, 1, 4) # TagRIFF
  \/ SubSeq(f, 9, 12) # TagWAVE

\* C3: a call of open() that opened a file with a bad header is never in the
\* chunk loop: it is at its return, returning false, having dispatched no chunk
\* and changed no field.
C3_BadHeaderFails ==
  (pc # "idle" /\ written # NoRecipe /\ BadHeader(file)) =>
    /\ pc = "done"
    /\ result = FALSE
    /\ stream.pos <= 12
    /\ Fields = before

\* a file of 12 bytes or more whose RIFF tag is right and whose WAVE tag is not
C3_Witness ==
  /\ pc = "done" /\ result = FALSE
  /\ Len(file) > 12
  /\ SubSeq(file, 1, 4) = TagRIFF
  /\ SubSeq(file, 9, 12) # TagWAVE

\* C4: when open() returns with an empty filename, or with one that names no file
\* that can be opened, it returns false and format, data, fact and cue (and the
\* open flag) are as they were when it was called.
C4_AccessFailure ==
  (pc = "done" /\ (filename_ = "" \/ filename_ \notin ExistingFiles)) =>
    /\ result = FALSE
    /\ Fields = before

\* a reader that had parsed a file with cue points is given a missing file
C4_Witness ==
  /\ pc = "done" /\ result = FALSE
  /\ filename_ = "non_existent_file.wav"
  /\ before.isOpen
  /\ Len(cue_.cuePoints) > 0
  /\ fmt_.numChannels = 2

\* the K payload bytes the recipe wrote into data chunk c (without the pad byte)
PayloadOf(c) == SubSeq(c.extra, 1, c.size)

\* the file is a PCM or IEEE-float fmt chunk followed by one data chunk
IsFmtThenData(rec) ==
  /\ WellFormed(rec)
  /\ Len(rec.chunks) = 2
  /\ rec.chunks[1].tag = TagFmt
  /\ rec.chunks[1].size % 2 = 0
  /\ Supported(rec.chunks[1].fields[1][2])
  /\ rec.chunks[2].tag = TagData

\* C5: when open() returns true from a file made of a PCM or IEEE-float fmt
\* chunk and a data chunk carrying K payload bytes, getDataChunk().chunkSize is
\* K and getRawSampleData() is exactly those K bytes, in order.
C5_DataRoundTrip ==
  (pc = "done" /\ result = TRUE /\ IsFmtThenData(written)) =>
    /\ getDataChunk.chunkSize = Len(PayloadOf(written.chunks[2]))
    /\ getRawSampleData = PayloadOf(written.chunks[2])

\* the tag and the declared size of the chunk dispatched last
LastTag == SubSeq(file, chunkStart + 1, chunkStart + 4)
LastSize == LE(SubSeq(file, chunkStart + 5, chunkStart + 8))

\* the decoded form of the only cue point of CueOne
CueOnePoint ==
  [identifier |-> 1, position |-> 0, fccChunk |-> TagData,
   chunkStart |-> 0, blockStart |-> 0, sampleOffset |-> 9]

\* C6: after the data decoder has accepted a chunk of odd declared size N, the
\* stream stands N + 1 bytes after the chunk's payload began, and a cue chunk
\* written after a 3-byte data chunk is decoded with its own fields.
C6_OddDataPadded ==
  /\ (pc = "loop" /\ chunkStart > 0 /\ LastTag = TagData /\ LastSize % 2 = 1) =>
       stream.pos = chunkStart + 8 + LastSize + 1
  /\ (pc = "done" /\ written = Riff(<<FmtB, Data3, CueOne>>)) =>
       /\ result = TRUE
       /\ cue_.cuePoints = before.cue.cuePoints \o <<CueOnePoint>>

RECURSIVE open_loop(_, _, _, _)
\* the chunk loop of WavFileUtils::open() and its final check, as a function of
\* the bytes f, the stream s, the fields fl of the reader and foundFmtChunk
open_loop(f, s, fl, found) ==
  LET t == Read(f, s, 4)
      end == [result |-> found, fields |-> [fl EXCEPT !.isOpen = @ \/ found]]
  IN IF ~Good(s) \/ t.s.gcount # 4 THEN end
     ELSE IF t.got = TagFmt
     THEN LET r == readFmtChunk(f, t.s, fl.fmt)
              fl1 == [fl EXCEPT !.fmt = r.fmt]
          IN IF r.ok THEN open_loop(f, r.s, fl1, TRUE)
                     ELSE [result |-> FALSE, fields |-> fl1]
     ELSE IF t.got = TagData
     THEN LET r == readDataChunk(f, t.s, fl.data, fl.fmt)
              fl1 == [fl EXCEPT !.data = r.data]
          IN IF r.ok THEN open_loop(f, r.s, fl1, found)
                     ELSE [result |-> FALSE, fields |-> fl1]
     ELSE IF t.got = TagFact
     THEN LET r == readFactChunk(f, t.s, fl.fact)
              fl1 == [fl EXCEPT !.fact = r.fact]
          IN IF r.ok THEN open_loop(f, r.s, fl1, found)
                     ELSE [result |-> FALSE, fields |-> fl1]
     ELSE IF t.got = TagCue
     THEN LET r == readCueChunk(f, t.s, fl.cue)
              fl1 == [fl EXCEPT !.cue = r.cue]
          IN IF r.ok THEN open_loop(f, r.s, fl1, found)
                     ELSE [result |-> FALSE, fields |-> fl1]
     ELSE LET r == skipChunk(f, t.s)
          IN IF r.ok THEN open_loop(f, r.s, fl, found)
                     ELSE [result |-> FALSE, fields |-> fl]

\* WavFileUtils::open() on a file that exists, as a function: what it returns
\* and the fields it leaves, from the bytes f and the fields fl it found
open(f, fl) ==
  LET r == Read(f, NewStream, 12)
  IN IF HeaderOk(r) THEN open_loop(f, r.s, fl, FALSE)
                    ELSE [result |-> FALSE, fields |-> fl]

\* the function open and the steps of open() agree on every file
OpenAgrees ==
  (pc = "done" /\ written # NoRecipe) =>
    [result |-> result, fields |-> Fields] = open(file, before)

\* a complete file of three chunks, the second of them with a tag open() does
\* not know, the other two with tags it decodes
IsSkipBetween(rec) ==
  /\ WellFormed(rec)
  /\ Len(rec.chunks) = 3
  /\ rec.chunks[2].tag \notin {TagFmt, TagData, TagFact, TagCue} \cup KnownSkippable
  /\ rec.chunks[1].tag \in {TagFmt, TagData, TagFact, TagCue}
  /\ rec.chunks[3].tag \in {TagFmt, TagData, TagFact, TagCue}

\* the file of the first and the third chunk of rec
Without2(rec) == Riff(<<rec.chunks[1], rec.chunks[3]>>)

\* C7: when open() returns from a file with an unknown chunk between two
\* chunks it decodes, it returns what it would return, and leaves every field
\* as it would leave it, for the file without the unknown chunk, called on the
\* same reader; it returns true when the first chunk is a PCM or IEEE-float
\* fmt chunk.
C7_UnknownChunkSkipped ==
  (pc = "done" /\ IsSkipBetween(written)) =>
    /\ [result |-> result, fields |-> Fields] = open(EncodeFile(Without2(written)), before)
    /\ (written.chunks[1].tag = TagFmt /\ Supported(written.chunks[1].fields[1][2]))
         => result = TRUE

\* fmt, xtra (3 bytes and a pad byte), data: the data chunk is decoded over
\* what an earlier open() had left
C7_Witness ==
  /\ pc = "done" /\ result = TRUE
  /\ written = Riff(<<FmtB, Xtra, Data3>>)
  /\ before.data.sampleDataInBytes = <<7, 201>>
  /\ data_.chunkSize = 3
  /\ data_.sampleDataInBytes = <<11, 12, 13>>
  /\ fmt_.audioFormat = IEEE_FLOAT

\* the recipe holds a cue chunk one of whose points names a chunk other than data
HasBadCueTag(rec) ==
  \E i \in 1..Len(rec.chunks) :
    /\ rec.chunks[i].tag = TagCue
    /\ \E k \in 1..Len(rec.chunks[i].fields) :
         k % 6 = 4 /\ rec.chunks[i].fields[k][2] # LE(TagData)

CutInsideFmt(rec) ==
  /\ rec.riff = TagRIFF /\ rec.wave = TagWAVE
  /\ Len(rec.chunks) > 0
  /\ rec.chunks[1].tag = TagFmt
  /\ rec.cut >= 20 /\ rec.cut < 36

\* C9: when open() returns from a file that ends inside the 16 mandatory bytes
\* of the fmt payload, it returns false and getFmtChunk() is what it was before
\* the call.
C9_TruncatedFmtUnexposed ==
  (pc = "done" /\ CutInsideFmt(written)) =>
    /\ result = FALSE
    /\ getFmtChunk = before.fmt

\* C10: when open() returns false, isOpen() is false.
C10_FailedOpenNotOpen ==
  (pc = "done" /\ result = FALSE) => ~isOpen

\* the fields of a WavFileUtils instance as its constructors leave them
NewFields ==
  [fmt |-> NewFmtChunk, data |-> NewDataChunk, fact |-> NewFactChunk,
   cue |-> NewCueChunk, isOpen |-> FALSE]

\* C11: when open() returns true, format, data, fact and cue are what open()
\* leaves in a newly constructed reader given the same file: nothing of what
\* the reader held before the call remains.
C11_OnlyThisFile ==
  (pc = "done" /\ result = TRUE) => Fields = open(file, NewFields).fields

\* C12: when a decoder or the skipper has returned success (the loop goes on),
\* the stream stands at chunk start + 8 + declared size, + 1 when that size is
\* odd.
C12_DecoderEndsAtChunkEnd ==
  (pc = "loop" /\ chunkStart > 0) =>
    stream.pos = chunkStart + 8 + LastSize + (LastSize % 2)

\* the offset in the file of chunk i of the recipe
ChunkOffset(rec, i) == 12 + Len(EncodeBody(SubSeq(rec.chunks, 1, i - 1)))

\* the number of bytes of the fixed-width fields of chunk c after its size field
FieldBytes(c) == Len(EncodeFields(c.fields))

\* the file ends inside the size field or a fixed-width field of one of its
\* chunks, after that chunk's tag
CutInsideField(rec) ==
  /\ rec.riff = TagRIFF /\ rec.wave = TagWAVE
  /\ \E i \in 1..Len(rec.chunks) :
       /\ rec.cut >= ChunkOffset(rec, i) + 4
       /\ rec.cut < ChunkOffset(rec, i) + 8 + FieldBytes(rec.chunks[i])

\* C13: when open() returns from a file that ends inside the size field or a
\* fixed-width field of a chunk, it returns false.
C13_ShortReadFails ==
  (pc = "done" /\ CutInsideField(written)) => result = FALSE

\* a chunk of the file declares more payload bytes than the file holds after
\* its size field
DeclaresTooMuch(rec) ==
  /\ rec.riff = TagRIFF /\ rec.wave = TagWAVE
  /\ \E i \in 1..Len(rec.chunks) :
       /\ rec.cut >= ChunkOffset(rec, i) + 8
       /\ rec.cut < ChunkOffset(rec, i) + 8 + rec.chunks[i].size

\* C14: when open() returns from a file one of whose chunks declares more
\* payload bytes than remain in the file, it returns false.
C14_OversizedChunkFails ==
  (pc = "done" /\ DeclaresTooMuch(written)) => result = FALSE

\* C15: when open() returns after dispatching a data chunk while the format
\* code is neither PCM nor IEEE float, it returns false, the sample buffer is
\* what it was before the call and the stream has not moved past the size field.
C15_UnsupportedFormatFails ==
  (pc = "done" /\ chunkStart > 0 /\ LastTag = TagData /\ ~Supported(getAudioFormat)) =>
    /\ result = FALSE
    /\ getRawSampleData = before.data.sampleDataInBytes
    /\ stream.pos <= chunkStart + 8

\* an ADPCM fmt chunk was decoded, then a complete data chunk of 2 bytes was
\* refused, on a reader whose buffer held other bytes
C15_Witness ==
  /\ pc = "done" /\ result = FALSE
  /\ written = Riff(<<FmtADPCM, DataW(<<7, 7>>)>>)
  /\ foundFmtChunk
  /\ getAudioFormat = 2
  /\ LastTag = TagData /\ LastSize = 2
  /\ stream.pos = chunkStart + 8 /\ Good(stream)
  /\ getRawSampleData = <<11, 12, 13>>

\* C16: when open() returns true from a complete file whose first chunk is a
\* data chunk, no sample data was extracted: the data structure is what it was
\* before the call.
C16_DataBeforeFmtRefused ==
  (pc = "done" /\ result = TRUE /\ WellFormed(written)
     /\ Len(written.chunks) > 0 /\ written.chunks[1].tag = TagData) =>
    getDataChunk = before.data

\* C17: when open() returns true, cuePoints has numCuePoints entries.
C17_CueCountMatches ==
  (pc = "done" /\ result = TRUE) =>
    Len(getCueChunk.cuePoints) = getCueChunk.numCuePoints

\* the indices of the chunks of the recipe tagged t
ChunksTagged(rec, t) == {i \in 1..Len(rec.chunks) : rec.chunks[i].tag = t}

\* cue point k as the recipe wrote it in cue chunk c
WrittenCuePoint(c, k) ==
  [identifier   |-> c.fields[6 * k - 4][2],
   position     |-> c.fields[6 * k - 3][2],
   fccChunk     |-> TagData,
   chunkStart   |-> c.fields[6 * k - 1][2],
   blockStart   |-> c.fields[6 * k][2],
   sampleOffset |-> c.fields[6 * k + 1][2]]

C20_ShortTagEndsCleanly ==
  [][(pc = "loop" /\ Good(stream) /\ Len(file) - stream.pos < 4) =>
       /\ pc' = "done"
       /\ result' = foundFmtChunk
       /\ isOpen_' = (isOpen_ \/ foundFmtChunk)
       /\ <<fmt_, data_, fact_, cue_>>' = <<fmt_, data_, fact_, cue_>>]_vars

\* one byte remained after a complete fmt chunk, and open() returned true
C20_Witness ==
  /\ pc = "done" /\ result = TRUE
  /\ written = Truncated(TruncBase, 39)
  /\ foundFmtChunk
  /\ stream.eof /\ stream.gcount = 1
  /\ fmt_.sampleRate = 96000

\* what open() returned and the fields it left
Outcome == [result |-> result, fields |-> Fields]

\* C21: when open() returns from a file whose bytes 4-7 are not the size of the
\* file, it returns what it returns, and leaves every field as it leaves it,
\* for the file that differs only in declaring its true size, on the same
\* reader.
C21_DeclaredSizeIgnored ==
  (pc = "done" /\ written \in FamDeclared) =>
    Outcome = open(EncodeFile(Riff(written.chunks)), before)

\* a file declaring a total size of 0 is parsed to its end on a reused reader
C21_Witness ==
  /\ pc = "done" /\ result = TRUE
  /\ written = [Riff(<<FmtB, Data3, CueOne>>) EXCEPT !.fsize = 0]
  /\ SubSeq(file, 5, 8) = <<0, 0, 0, 0>>
  /\ before.fmt.sampleRate = 8000
  /\ fmt_.sampleRate = 96000
  /\ data_.sampleDataInBytes = <<11, 12, 13>>
  /\ Len(cue_.cuePoints) = Len(before.cue.cuePoints) + 1

\* the chunk holds as many bytes as it declares, and a pad byte after an odd
\* number of them
ChunkComplete(c) == FieldBytes(c) + Len(c.extra) = c.size + (c.size % 2)

\* the place of a chunk in the order fmt, data, fact, cue, others
Rank(c) ==
  CASE c.tag = TagFmt -> 1 [] c.tag = TagData -> 2 [] c.tag = TagFact -> 3
    [] c.tag = TagCue -> 4 [] OTHER -> 5

\* the chunks in the order fmt, data, fact, cue, others
Canonical(chunks) == SortSeq(chunks, LAMBDA a, b : Rank(a) < Rank(b))

\* a complete file of complete chunks, no two of the same kind, with a fmt
\* chunk and after it a data chunk
Orderable(rec) ==
  /\ WellFormed(rec)
  /\ \A i \in 1..Len(rec.chunks) : ChunkComplete(rec.chunks[i])
  /\ \A i, j \in 1..Len(rec.chunks) : Rank(rec.chunks[i]) = Rank(rec.chunks[j]) => i = j
  /\ \E i, j \in 1..Len(rec.chunks) :
       i < j /\ rec.chunks[i].tag = TagFmt /\ rec.chunks[j].tag = TagData

\* C22: when open() returns from a complete file with one chunk of each kind,
\* fmt before data, it returns what it returns, and leaves every field as it
\* leaves it, for the file with the same chunks in the order fmt, data, fact,
\* cue, others, on the same reader.
C22_OrderIndependent ==
  (pc = "done" /\ Orderable(written)) =>
    Outcome = open(EncodeFile(Riff(Canonical(written.chunks))), before)

\* the six fields of the fmt chunk dispatched last, as its bytes in the file
FmtFieldsInFile ==
  [audioFormat    |-> LE(SubSeq(file, chunkStart + 9, chunkStart + 10)),
   numChannels    |-> LE(SubSeq(file, chunkStart + 11, chunkStart + 12)),
   sampleRate     |-> LE(SubSeq(file, chunkStart + 13, chunkStart + 16)),
   avgBytesPerSec |-> LE(SubSeq(file, chunkStart + 17, chunkStart + 20)),
   blockAlign     |-> LE(SubSeq(file, chunkStart + 21, chunkStart + 22)),
   bitsPerSample  |-> LE(SubSeq(file, chunkStart + 23, chunkStart + 24))]

\* C23: after the fmt decoder has accepted a chunk declaring more than 16
\* bytes, the stream stands at the chunk's payload + the declared size, where
\* the next tag is read, and the six fields are the 16 mandatory bytes.
C23_FmtExtensionSkipped ==
  (pc = "loop" /\ chunkStart > 0 /\ LastTag = TagFmt /\ LastSize > 16) =>
    /\ stream.pos = chunkStart + 8 + LastSize
    /\ [k \in DOMAIN FmtFieldsInFile |-> getFmtChunk[k]] = FmtFieldsInFile

\* an 18-byte fmt chunk was decoded over another format, and the tag of the
\* cue chunk is next
C23_Witness ==
  /\ pc = "loop" /\ LastTag = TagFmt /\ LastSize = 18
  /\ chunkStart = 12 /\ stream.pos = 38
  /\ written = Riff(<<FmtB, CueOne, Data3>>)
  /\ SubSeq(file, stream.pos + 1, stream.pos + 4) = TagCue
  /\ before.fmt.sampleRate = 8000
  /\ fmt_.sampleRate = 96000 /\ fmt_.bitsPerSample = 16 /\ fmt_.audioFormat = IEEE_FLOAT

\* C24: when open() returns false after the cue decoder failed, cuePoints
\* holds no cue point of that chunk: it is what it was before the call.
C24_NoPartialCueList ==
  (pc = "done" /\ result = FALSE /\ chunkStart > 0 /\ LastTag = TagCue
     /\ Cardinality(ChunksTagged(written, TagCue)) = 1) =>
    getCueChunk.cuePoints = before.cue.cuePoints

\* the file holds the count of a cue chunk and fewer complete 24-byte records
\* after it than the count
CueCountTooLarge(rec) ==
  /\ rec.riff = TagRIFF /\ rec.wave = TagWAVE
  /\ \E i \in 1..Len(rec.chunks) :
       /\ rec.chunks[i].tag = TagCue
       /\ rec.cut >= ChunkOffset(rec, i) + 12
       /\ (rec.cut - (ChunkOffset(rec, i) + 12)) \div 24 < rec.chunks[i].fields[1][2]

C27_LoopAdvances ==
  [][pc = "loop" =>
       \/ pc' = "done"
       \/ /\ pc' = "loop"
          /\ stream.pos + 4 <= Len(file)
          /\ stream'.pos >= stream.pos + 8]_vars

\* three chunks were dispatched one after the other and open() has returned
C27_Witness ==
  /\ pc = "done" /\ result = TRUE
  /\ written = Riff(<<FmtB, CueOne, Data3>>)
  /\ chunkStart = 12 + 26 + 36
  /\ stream.pos = Len(file)
  /\ stream.eof

\* the last chunk of the recipe tagged t
LastTagged(rec, t) ==
  rec.chunks[CHOOSE i \in ChunksTagged(rec, t) : \A j \in ChunksTagged(rec, t) : j <= i]

Reader_NewFields ==
  [fmt |-> Reader_NewFmtChunk, data |-> Reader_NewDataChunk, fact |-> NewFactChunk,
   cue |-> NewCueChunk, isOpen |-> FALSE]

\* a complete file of complete chunks of even declared size, its fact chunks of
\* 4 bytes, with a fmt chunk, and every data chunk after a fmt chunk
WellAligned(rec) ==
  /\ WellFormed(rec)
  /\ \A i \in 1..Len(rec.chunks) :
       /\ ChunkComplete(rec.chunks[i])
       /\ rec.chunks[i].size % 2 = 0
       /\ rec.chunks[i].tag = TagFact => rec.chunks[i].size = 4
       /\ rec.chunks[i].tag = TagData =>
            \E j \in 1..(i - 1) : rec.chunks[j].tag = TagFmt
  /\ ChunksTagged(rec, TagFmt) # {}

=============================================================================
